---------------------------- MODULE Spec2Model ----------------------------
(***************************************************************************)
(* TURSTIA backend: the dual-pipeline credit evaluation.                   *)
(*                                                                         *)
(*   MLRiskAgent               (backend/agents/ml_risk_agent.py)           *)
(*   ExtendedSubmissionService (backend/services/                          *)
(*                              extended_submission_service.py)            *)
(*                                                                         *)
(* Python dicts are records whose DOMAIN is the set of keys present, so    *)
(* dict.get(k, default) is Get(d, k, default).  Probabilities, ratios and  *)
(* confidences are fixed-point integers in ten-thousandths (0.9 is 9000).  *)
(***************************************************************************)
EXTENDS Integers, Sequences, FiniteSets, TLC

VARIABLES
    model_file,       \* what is at MLRiskAgent.model_path when the agent starts
    model,            \* MLRiskAgent.model: what _load_model left behind
    half_up,          \* which way round() resolves a decimal tie (see round)
    application,      \* the application_data dict of the current request
    pc,               \* position inside process_application
    ml_result,        \* result of ml_agent.predict
    qdrant_decision,  \* result of decision_agent.run
    final_result,     \* result of _combine_decisions
    exc,              \* the exception that left process_application, or "none"
    model_outcome,    \* what the model did in this request's predict
    features_df,      \* the one-row DataFrame of extract_features
    raw_score,        \* default_probability or risk_score, before round()
    earlier,          \* the calls already returned: their inputs and results
    requests          \* the predict calls in flight on one agent, by thread

vars == <<model_file, model, half_up, application, pc, ml_result,
          qdrant_decision, final_result, exc, model_outcome, features_df,
          raw_score, earlier, requests>>

-----------------------------------------------------------------------------
(* Bounds of the model. *)

\* Probabilities offered to fuse: k/MaxScoreIdx for k in 0..MaxScoreIdx.
MaxScoreIdx == 8

\* Confidences offered to fuse: k/MaxConfIdx for k in 0..MaxConfIdx.
MaxConfIdx == 8

\* Probabilities a loaded model returns: k/MaxProbIdx for k in 0..MaxProbIdx.
MaxProbIdx == 8

\* Fields removed together from the application that extract_features reads.
MaxDroppedFields == 2

\* Distinct earlier calls of extract_features and _combine_decisions that a
\* later call is compared with.
MaxEarlier == 2

\* predict calls in flight at once on one agent.
MaxRequests == 2

-----------------------------------------------------------------------------
(* Python values. *)

\* 1.0 in fixed point.
One == 10000

\* None in a slot that otherwise holds a number.
None == -99999999

\* None in a slot that otherwise holds a dict.
NoneDict == [is_none |-> TRUE]

\* The value of a dict slot that holds no dict yet (a result not yet computed).
NoDict == <<>>

\* No call has returned yet.
NoEarlier == [extract |-> {}, fuse |-> {}]

\* dict.get(k, default)
Get(d, k, default) == IF k \in DOMAIN d THEN d[k] ELSE default

\* round(num/den, ndigits) in fixed point, ndigits 2 or 3.  Python rounds the
\* binary double to the nearest multiple of 10^-ndigits.  A value that is a
\* decimal tie (x.xx5 for two digits) has a double that lies just below or
\* just above the tie, or on it, so the tie resolves either way: half_up is
\* that direction, fixed by the arithmetic and the same for every call of
\* one behaviour.
\* Mutant: a tie resolves the other way once a fusion has returned.
RoundRemembers(num, den, ndigits) ==
    LET scale == IF ndigits = 2 THEN 100 ELSE 1000
        unit  == One \div scale
        q     == (scale * num) \div den
        r     == (scale * num) % den
    IN  IF 2 * r < den THEN unit * q
        ELSE IF 2 * r > den THEN unit * (q + 1)
        ELSE IF half_up = (earlier.fuse = {}) THEN unit * (q + 1) ELSE unit * q

round(num, den, ndigits) ==
    LET scale == IF ndigits = 2 THEN 100 ELSE 1000
        unit  == One \div scale
        q     == (scale * num) \div den
        r     == (scale * num) % den
    IN  IF 2 * r < den THEN unit * q
        ELSE IF 2 * r > den THEN unit * (q + 1)
        ELSE IF half_up THEN unit * (q + 1) ELSE unit * q

\* x or 0, for x a number or None
Or0(x) == IF x = None \/ x = 0 THEN 0 ELSE x

\* Mutant: the flag is inverted.
FlagInverted(cond) == IF cond THEN 0 ELSE 1

\* 1 if cond else 0
Flag(cond) == IF cond THEN 1 ELSE 0

-----------------------------------------------------------------------------
(* MLRiskAgent.extract_features *)

\* personal.get('spouse_info', {}).get('monthly_income', 0) if
\* personal.get('spouse_exists') else 0.  None has no .get: the lookup raises.
SpouseInfoRaises(personal) ==
    /\ Get(personal, "spouse_exists", FALSE)
    /\ Get(personal, "spouse_info", <<>>) = NoneDict

\* Mutant: the income is read whatever spouse_exists says.
SpouseIncomeIgnoresFlag(personal) ==
    Get(Get(personal, "spouse_info", <<>>), "monthly_income", 0)

SpouseIncome(personal) ==
    IF Get(personal, "spouse_exists", FALSE)
    THEN Get(Get(personal, "spouse_info", <<>>), "monthly_income", 0)
    ELSE 0

\* The base features, "Build feature dictionary".
BaseFeatures(app) ==
    LET client       == Get(app, "client_identity", <<>>)
        personal     == Get(app, "personal_situation", <<>>)
        professional == Get(app, "professional_situation", <<>>)
        financial    == Get(app, "financial_situation", <<>>)
        credit       == Get(app, "credit_request", <<>>)
        behavioral   == Get(app, "behavioral_indicators", <<>>)
        intention    == Get(app, "real_intention", <<>>)
        risks        == Get(app, "risk_checklist", <<>>)
        synthesis    == Get(app, "synthesis", <<>>)
    IN  [age |-> Get(client, "age", 0),
         banking_seniority_years |-> Or0(Get(client, "banking_seniority_years", 0)),
         client_status_is_new |-> Flag(Get(client, "client_status", "None") = "NEW"),
         interaction_frequency_rare |->
             Flag(Get(client, "interaction_frequency", "None") = "RARE"),
         dependents_count |-> Get(personal, "dependents_count", 0),
         has_spouse |-> Flag(Get(personal, "spouse_exists", FALSE)),
         spouse_income |-> SpouseIncome(personal),
         is_married |-> Flag(Get(personal, "marital_status", "None") = "MARRIED"),
         is_employed_cdi |->
             Flag(Get(professional, "professional_status", "None") = "EMPLOYEE_CDI"),
         is_unemployed |->
             Flag(Get(professional, "professional_status", "None") = "UNEMPLOYED"),
         job_seniority_years |-> Or0(Get(professional, "seniority_years", 0)),
         job_stability_high |-> Flag(Get(professional, "stability", "None") = "HIGH"),
         job_stability_low |-> Flag(Get(professional, "stability", "None") = "LOW"),
         monthly_income |-> Get(financial, "monthly_income_net", 0),
         monthly_expenses |-> Get(financial, "monthly_fixed_expenses", 0),
         existing_debt |-> Or0(Get(financial, "existing_credits_total", 0)),
         debt_monthly_payment |->
             Or0(Get(financial, "existing_credits_monthly_payment", 0)),
         debt_ratio |-> Or0(Get(financial, "debt_ratio", 0)),
         available_savings |-> Or0(Get(financial, "available_savings", 0)),
         has_banking_incidents |->
             IF Get(financial, "banking_history", "None") = "NO_INCIDENT" THEN 0 ELSE 1,
         major_banking_incidents |->
             Flag(Get(financial, "banking_history", "None") = "MAJOR_INCIDENTS"),
         amount_requested |-> Get(credit, "amount_requested", 0),
         duration_months |-> Get(credit, "duration_months", 0),
         is_real_estate |-> Flag(Get(credit, "credit_type", "None") = "REAL_ESTATE"),
         is_investment |-> Flag(Get(credit, "purpose", "None") = "INVESTMENT"),
         is_comfort_expense |->
             Flag(Get(credit, "purpose", "None") = "COMFORT_EXPENSE"),
         stress_level |-> Get(behavioral, "stress_level", 3),
         urgency_level |-> Get(behavioral, "urgency_level", 3),
         project_clarity |-> Get(behavioral, "project_clarity", 3),
         engagement_level |-> Get(behavioral, "engagement_level", 3),
         low_coherence |->
             Flag(Get(behavioral, "discourse_coherence", "None") = "LOW"),
         external_pressure |->
             Flag(Get(intention, "main_motivation", "None") = "EXTERNAL_PRESSURE"),
         short_term_only |->
             Flag(Get(intention, "projection_capacity", "None") = "SHORT_TERM_ONLY"),
         risk_professional_instability |->
             Flag(Get(risks, "professional_instability", FALSE)),
         risk_high_debt |-> Flag(Get(risks, "high_debt", FALSE)),
         risk_spouse_dependency |->
             Flag(Get(risks, "spouse_income_dependency", FALSE)),
         risk_non_priority |-> Flag(Get(risks, "non_priority_project", FALSE)),
         risk_excessive_urgency |-> Flag(Get(risks, "excessive_urgency", FALSE)),
         risk_incoherent |-> Flag(Get(risks, "incoherent_discourse", FALSE)),
         global_risk_high |->
             Flag(Get(synthesis, "global_risk_profile", "None") = "HIGH"),
         repayment_capacity_insufficient |->
             Flag(Get(synthesis, "theoretical_repayment_capacity", "None")
                    = "INSUFFICIENT")]

\* Mutant: without an income the ratios are left out.
DerivedFeaturesWithoutSentinels(f) ==
    IF f.monthly_income > 0
    THEN [expense_ratio |-> [num |-> f.monthly_expenses, den |-> f.monthly_income],
          credit_to_income_ratio |->
              [num |-> f.amount_requested, den |-> f.monthly_income * 12]]
    ELSE <<>>

\* Mutant: only an income of zero takes the sentinels.
DerivedFeaturesNonZero(f) ==
    IF f.monthly_income # 0
    THEN [expense_ratio |-> [num |-> f.monthly_expenses, den |-> f.monthly_income],
          credit_to_income_ratio |->
              [num |-> f.amount_requested, den |-> f.monthly_income * 12]]
    ELSE [expense_ratio |-> [num |-> 1, den |-> 1],
          credit_to_income_ratio |-> [num |-> 10, den |-> 1]]

\* "Derived features": a quotient is kept exact, as numerator and denominator.
DerivedFeatures(f) ==
    IF f.monthly_income > 0
    THEN [expense_ratio |-> [num |-> f.monthly_expenses, den |-> f.monthly_income],
          credit_to_income_ratio |->
              [num |-> f.amount_requested, den |-> f.monthly_income * 12]]
    ELSE [expense_ratio |-> [num |-> 1, den |-> 1],
          credit_to_income_ratio |-> [num |-> 10, den |-> 1]]

\* Mutant: the spouse dependency is not counted.
TotalRiskFlagsWithoutSpouse(f) ==
    f.risk_professional_instability + f.risk_high_debt
      + f.risk_non_priority + f.risk_excessive_urgency + f.risk_incoherent

\* "Risk count"
TotalRiskFlags(f) ==
    f.risk_professional_instability + f.risk_high_debt + f.risk_spouse_dependency
      + f.risk_non_priority + f.risk_excessive_urgency + f.risk_incoherent

\* The keys of the feature dictionary in insertion order, which is the
\* column order of pd.DataFrame([features]): the dict literal, ...
BaseColumns ==
    <<"age", "banking_seniority_years", "client_status_is_new",
      "interaction_frequency_rare", "dependents_count", "has_spouse",
      "spouse_income", "is_married", "is_employed_cdi", "is_unemployed",
      "job_seniority_years", "job_stability_high", "job_stability_low",
      "monthly_income", "monthly_expenses", "existing_debt",
      "debt_monthly_payment", "debt_ratio", "available_savings",
      "has_banking_incidents", "major_banking_incidents", "amount_requested",
      "duration_months", "is_real_estate", "is_investment",
      "is_comfort_expense", "stress_level", "urgency_level",
      "project_clarity", "engagement_level", "low_coherence",
      "external_pressure", "short_term_only",
      "risk_professional_instability", "risk_high_debt",
      "risk_spouse_dependency", "risk_non_priority",
      "risk_excessive_urgency", "risk_incoherent", "global_risk_high",
      "repayment_capacity_insufficient">>

\* ... then the derived features (either branch assigns them in this
\* order), ...
DerivedColumns == <<"expense_ratio", "credit_to_income_ratio">>

\* ... then the risk count.
RiskCountColumns == <<"total_risk_flags">>

\* extract_features(application): the one-row DataFrame as the dict it is
\* built from and its columns, or the exception the lookups raise.
extract_features(app) ==
    IF SpouseInfoRaises(Get(app, "personal_situation", <<>>))
    THEN [raised |-> "AttributeError", features |-> NoDict, columns |-> <<>>]
    ELSE LET f == BaseFeatures(app)
         IN  [raised   |-> "none",
              features |-> f @@ DerivedFeatures(f)
                             @@ [total_risk_flags |-> TotalRiskFlags(f)],
              columns  |-> BaseColumns \o DerivedColumns \o RiskCountColumns]

-----------------------------------------------------------------------------
(* MLRiskAgent.__init__ and _load_model *)

\* What the agent finds at model_path: no file, a file pickle cannot load,
\* or the pickle of a model with predict_proba ("PROBA") or with predict only
\* ("LABEL").
ModelFiles == {"ABSENT", "UNREADABLE", "PROBA", "LABEL"}

\* Mutant: an unreadable file leaves an object behind as the model.
LoadModelKeepsUnreadable(file) ==
    IF file = "ABSENT" THEN "NONE"
    ELSE IF file = "UNREADABLE" THEN "LABEL"
    ELSE file

\* self.model after __init__: None unless the file exists and pickle.load
\* returns.
load_model(file) ==
    IF file = "ABSENT" THEN "NONE"
    ELSE IF file = "UNREADABLE" THEN "NONE"
    ELSE file

-----------------------------------------------------------------------------
(* MLRiskAgent.predict and _placeholder_prediction *)

\* Mutant: the thresholds belong to the lower bucket.
RiskLevelInclusive(p) ==
    IF p <= 3000 THEN "LOW" ELSE IF p <= 6000 THEN "MEDIUM" ELSE "HIGH"

\* predict, "Determine risk level"
RiskLevel(p) ==
    IF p < 3000 THEN "LOW" ELSE IF p < 6000 THEN "MEDIUM" ELSE "HIGH"

\* len(features_df.columns)
FeatureCount(features) == Cardinality(DOMAIN features)

Min(a, b) == IF a < b THEN a ELSE b

\* Mutant: a debt ratio of exactly 0.5 already counts.
HeuristicScoreDebtInclusive(features) ==
    Min(3000
          + (IF features.total_risk_flags >= 3 THEN 3000 ELSE 0)
          + (IF features.debt_ratio >= 5000 THEN 2000 ELSE 0)
          + (IF features.is_unemployed = 1 THEN 3000 ELSE 0)
          + (IF features.major_banking_incidents = 1 THEN 2500 ELSE 0)
          + (IF features.job_stability_low = 1 THEN 1500 ELSE 0),
        One)

\* Mutant: three raised flags lower the score.
HeuristicScoreFlagsDiscount(features) ==
    Min(3000
          - (IF features.total_risk_flags >= 3 THEN 3000 ELSE 0)
          + (IF features.debt_ratio > 5000 THEN 2000 ELSE 0)
          + (IF features.is_unemployed = 1 THEN 3000 ELSE 0)
          + (IF features.major_banking_incidents = 1 THEN 2500 ELSE 0)
          + (IF features.job_stability_low = 1 THEN 1500 ELSE 0),
        One)

\* Mutant: the score starts at 0.
HeuristicScoreNoBase(features) ==
    Min((IF features.total_risk_flags >= 3 THEN 3000 ELSE 0)
          + (IF features.debt_ratio > 5000 THEN 2000 ELSE 0)
          + (IF features.is_unemployed = 1 THEN 3000 ELSE 0)
          + (IF features.major_banking_incidents = 1 THEN 2500 ELSE 0)
          + (IF features.job_stability_low = 1 THEN 1500 ELSE 0),
        One)

\* Mutant: the sum is not clamped.
HeuristicScoreUnclamped(features) ==
    3000
      + (IF features.total_risk_flags >= 3 THEN 3000 ELSE 0)
      + (IF features.debt_ratio > 5000 THEN 2000 ELSE 0)
      + (IF features.is_unemployed = 1 THEN 3000 ELSE 0)
      + (IF features.major_banking_incidents = 1 THEN 2500 ELSE 0)
      + (IF features.job_stability_low = 1 THEN 1500 ELSE 0)

\* _placeholder_prediction, "Simple risk calculation based on key features"
HeuristicScore(features) ==
    Min(3000
          + (IF features.total_risk_flags >= 3 THEN 3000 ELSE 0)
          + (IF features.debt_ratio > 5000 THEN 2000 ELSE 0)
          + (IF features.is_unemployed = 1 THEN 3000 ELSE 0)
          + (IF features.major_banking_incidents = 1 THEN 2500 ELSE 0)
          + (IF features.job_stability_low = 1 THEN 1500 ELSE 0),
        One)

\* Mutant: a score of exactly 0.6 is rejected.
PlaceholderRejectsAtThreshold(features) ==
    LET risk_score == HeuristicScore(features)
    IN  [ml_risk_score |-> round(risk_score, One, 3),
         ml_risk_level |-> RiskLevel(risk_score),
         ml_prediction |-> IF risk_score >= 6000 THEN "REJECT" ELSE "ACCEPT",
         model_used    |-> "PLACEHOLDER_HEURISTIC",
         feature_count |-> FeatureCount(features),
         warning       |-> "Using placeholder prediction - ML model not loaded"]

\* _placeholder_prediction(features_df)
placeholder_prediction(features) ==
    LET risk_score == HeuristicScore(features)
    IN  [ml_risk_score |-> round(risk_score, One, 3),
         ml_risk_level |-> RiskLevel(risk_score),
         ml_prediction |-> IF risk_score > 6000 THEN "REJECT" ELSE "ACCEPT",
         model_used    |-> "PLACEHOLDER_HEURISTIC",
         feature_count |-> FeatureCount(features),
         warning       |-> "Using placeholder prediction - ML model not loaded"]

\* The verdict of the try block, from default_probability and prediction.
ModelVerdict(default_probability, prediction, features) ==
    [ml_risk_score |-> round(default_probability, One, 3),
     ml_risk_level |-> RiskLevel(default_probability),
     ml_prediction |-> IF prediction = 1 THEN "REJECT" ELSE "ACCEPT",
     model_used    |-> "ML_MODEL",
     feature_count |-> FeatureCount(features)]

\* Mutant: the model's exception is not caught.
OnModelFaultPropagates(features) ==
    [raised |-> "Exception", invoked |-> TRUE, result |-> NoDict]

\* except Exception as e: ... return self._placeholder_prediction(features_df)
OnModelFault(features) ==
    [raised |-> "none", invoked |-> TRUE,
     result |-> placeholder_prediction(features)]

\* What the loaded model does when this request invokes it: it raises
\* ("fault"), predict_proba returns the probability of default ("proba", p),
\* or, for a model without predict_proba, predict returns the label
\* ("label", 0 or 1).
\*
\* predict(application) for the model loaded and that outcome: the verdict,
\* or the exception that leaves predict.  invoked: whether the model was
\* called; df: the local features_df; score: the local default_probability
\* (try block) or risk_score (_placeholder_prediction) the verdict is made of.
predict(mdl, app, outcome) ==
    LET ex == extract_features(app)
        df == [columns |-> ex.columns, row |-> ex.features]
    IN  IF ex.raised # "none"
        THEN [raised |-> ex.raised, result |-> NoDict, invoked |-> FALSE,
              df |-> NoDict, score |-> None]
        ELSE IF mdl = "NONE"
        THEN [raised |-> "none", invoked |-> FALSE,
              result |-> placeholder_prediction(ex.features),
              df |-> df, score |-> HeuristicScore(ex.features)]
        ELSE IF outcome.kind = "fault"
        THEN OnModelFault(ex.features)
               @@ [df |-> df, score |-> HeuristicScore(ex.features)]
        ELSE IF mdl = "PROBA"
        THEN [raised |-> "none", invoked |-> TRUE,
              result |-> ModelVerdict(outcome.p,
                                      IF outcome.p > 5000 THEN 1 ELSE 0,
                                      ex.features),
              df |-> df, score |-> outcome.p]
        ELSE [raised |-> "none", invoked |-> TRUE,
              result |-> ModelVerdict(outcome.label * One, outcome.label,
                                      ex.features),
              df |-> df, score |-> outcome.label * One]

-----------------------------------------------------------------------------
(* ExtendedSubmissionService._combine_decisions *)

\* Mutant: the fraud stop does not override the ML decision.
FraudStopKeepsMlDecision(ml, qd) ==
    [final_decision    |-> ml["ml_prediction"],
     reason            |-> "FRAUD_DETECTED",
     confidence        |-> Get(qd, "confidence", 9000),
     mode              |-> "FRAUD_STOP",
     ml_assessment     |-> ml,
     qdrant_assessment |-> qd,
     action            |-> "SEND_TO_INVESTIGATION"]

\* mode == "FRAUD_STOP"
FraudStopResult(ml, qd) ==
    [final_decision    |-> "REJECT",
     reason            |-> "FRAUD_DETECTED",
     confidence        |-> Get(qd, "confidence", 9000),
     mode              |-> "FRAUD_STOP",
     ml_assessment     |-> ml,
     qdrant_assessment |-> qd,
     action            |-> "SEND_TO_INVESTIGATION"]

\* Mutant: the confidence is the probability itself, not its complement.
ColdStartRawScore(ml, qd) ==
    [final_decision            |-> ml["ml_prediction"],
     reason                    |-> "COLD_START_ML_DECISION",
     confidence                |-> round(ml["ml_risk_score"], One, 2),
     mode                      |-> "COLD_START",
     ml_assessment             |-> ml,
     qdrant_assessment         |-> qd,
     human_validation_required |-> TRUE]

\* mode == "COLD_START"
ColdStartResult(ml, qd) ==
    [final_decision            |-> ml["ml_prediction"],
     reason                    |-> "COLD_START_ML_DECISION",
     confidence                |-> round(One - ml["ml_risk_score"], One, 2),
     mode                      |-> "COLD_START",
     ml_assessment             |-> ml,
     qdrant_assessment         |-> qd,
     human_validation_required |-> TRUE]

\* Mutant: the ML side enters the mean as the probability of default.
AgreeAcceptRawScore(ml, qd) ==
    [final_decision    |-> "ACCEPT",
     reason            |-> "BOTH_MODELS_AGREE_ACCEPT",
     confidence        |-> round(ml["ml_risk_score"]
                                   + Get(qd, "confidence", 5000), 2 * One, 2),
     mode              |-> "NORMAL",
     conditions        |-> Get(qd, "conditions", <<>>),
     ml_assessment     |-> ml,
     qdrant_assessment |-> qd]

\* ml_accepts and qdrant_accepts
AgreeAcceptResult(ml, qd) ==
    [final_decision    |-> "ACCEPT",
     reason            |-> "BOTH_MODELS_AGREE_ACCEPT",
     \* (1 - score) * 0.5 + confidence * 0.5
     confidence        |-> round((One - ml["ml_risk_score"])
                                   + Get(qd, "confidence", 5000), 2 * One, 2),
     mode              |-> "NORMAL",
     conditions        |-> Get(qd, "conditions", <<>>),
     ml_assessment     |-> ml,
     qdrant_assessment |-> qd]

\* Mutant: the qualitative confidence is not complemented.
AgreeRejectRawConfidence(ml, qd) ==
    [final_decision    |-> "REJECT",
     reason            |-> "BOTH_MODELS_AGREE_REJECT",
     confidence        |-> round(ml["ml_risk_score"]
                                   + Get(qd, "confidence", 5000), 2 * One, 2),
     mode              |-> "NORMAL",
     ml_assessment     |-> ml,
     qdrant_assessment |-> qd]

\* Mutant: the two halves are added without their 0.5 weights.
AgreeRejectUnweighted(ml, qd) ==
    [final_decision    |-> "REJECT",
     reason            |-> "BOTH_MODELS_AGREE_REJECT",
     confidence        |-> round(ml["ml_risk_score"]
                                   + (One - Get(qd, "confidence", 5000)), One, 2),
     mode              |-> "NORMAL",
     ml_assessment     |-> ml,
     qdrant_assessment |-> qd]

\* not ml_accepts and not qdrant_accepts
AgreeRejectResult(ml, qd) ==
    [final_decision    |-> "REJECT",
     reason            |-> "BOTH_MODELS_AGREE_REJECT",
     \* score * 0.5 + (1 - confidence) * 0.5
     confidence        |-> round(ml["ml_risk_score"]
                                   + (One - Get(qd, "confidence", 5000)), 2 * One, 2),
     mode              |-> "NORMAL",
     ml_assessment     |-> ml,
     qdrant_assessment |-> qd]

\* Mutant: a disagreement blends the two confidences instead of fixing 0.5.
DisagreeBlended(ml, qd) ==
    [final_decision            |-> ml["ml_prediction"],
     reason                    |-> "MODELS_DISAGREE",
     confidence                |-> round((One - ml["ml_risk_score"])
                                           + Get(qd, "confidence", 5000),
                                         2 * One, 2),
     mode                      |-> "MANUAL_REVIEW_REQUIRED",
     ml_assessment             |-> ml,
     qdrant_assessment         |-> qd,
     human_validation_required |-> TRUE,
     conflict_details          |->
         [ml_says           |-> ml["ml_prediction"],
          qdrant_says       |-> Get(qd, "final_decision", "None"),
          ml_confidence     |-> round(One - ml["ml_risk_score"], One, 2),
          qdrant_confidence |-> Get(qd, "confidence", 0)]]

\* Mutant: a disagreement follows the qualitative verdict.
DisagreeFollowsQdrant(ml, qd) ==
    [final_decision            |-> Get(qd, "final_decision", "REJECT"),
     reason                    |-> "MODELS_DISAGREE",
     confidence                |-> 5000,
     mode                      |-> "MANUAL_REVIEW_REQUIRED",
     ml_assessment             |-> ml,
     qdrant_assessment         |-> qd,
     human_validation_required |-> TRUE,
     conflict_details          |->
         [ml_says           |-> ml["ml_prediction"],
          qdrant_says       |-> Get(qd, "final_decision", "None"),
          ml_confidence     |-> round(One - ml["ml_risk_score"], One, 2),
          qdrant_confidence |-> Get(qd, "confidence", 0)]]

\* Mutant: a disagreement keeps only a summary of the ML verdict.
DisagreeSummarised(ml, qd) ==
    [final_decision            |-> ml["ml_prediction"],
     reason                    |-> "MODELS_DISAGREE",
     confidence                |-> 5000,
     mode                      |-> "MANUAL_REVIEW_REQUIRED",
     ml_assessment             |-> [ml_risk_score |-> ml["ml_risk_score"],
                                    ml_prediction |-> ml["ml_prediction"]],
     qdrant_assessment         |-> qd,
     human_validation_required |-> TRUE,
     conflict_details          |->
         [ml_says           |-> ml["ml_prediction"],
          qdrant_says       |-> Get(qd, "final_decision", "None"),
          ml_confidence     |-> round(One - ml["ml_risk_score"], One, 2),
          qdrant_confidence |-> Get(qd, "confidence", 0)]]

\* the else branch: disagreement
DisagreeResult(ml, qd) ==
    [final_decision            |-> ml["ml_prediction"],
     reason                    |-> "MODELS_DISAGREE",
     confidence                |-> 5000,
     mode                      |-> "MANUAL_REVIEW_REQUIRED",
     ml_assessment             |-> ml,
     qdrant_assessment         |-> qd,
     human_validation_required |-> TRUE,
     conflict_details          |->
         [ml_says           |-> ml["ml_prediction"],
          qdrant_says       |-> Get(qd, "final_decision", "None"),
          ml_confidence     |-> round(One - ml["ml_risk_score"], One, 2),
          qdrant_confidence |-> Get(qd, "confidence", 0)]]

\* _combine_decisions(ml_result, qdrant_decision, ...); fraud_result,
\* risk_result, scenario_result and top_similarity are never read.
combine_decisions(ml, qd) ==
    LET mode           == Get(qd, "mode", "NORMAL")
        ml_accepts     == ml["ml_prediction"] = "ACCEPT"
        qdrant_accepts == Get(qd, "final_decision", "None") = "ACCEPT"
    IN  IF mode = "FRAUD_STOP" THEN FraudStopResult(ml, qd)
        ELSE IF mode = "COLD_START" THEN ColdStartResult(ml, qd)
        ELSE IF ml_accepts /\ qdrant_accepts THEN AgreeAcceptResult(ml, qd)
        ELSE IF ~ml_accepts /\ ~qdrant_accepts THEN AgreeRejectResult(ml, qd)
        ELSE DisagreeResult(ml, qd)

-----------------------------------------------------------------------------
(* ExtendedSubmissionService._generate_text_summary *)

\* f"taux d'endettement: {financial.get('debt_ratio', 0)*100:.1f}%": None * 100
\* raises TypeError.  Every other value is only formatted, which None allows.
generate_text_summary(app) ==
    LET financial == Get(app, "financial_situation", <<>>)
    IN  IF Get(financial, "debt_ratio", 0) = None
        THEN [raised |-> "TypeError"]
        ELSE [raised |-> "none"]

-----------------------------------------------------------------------------
(* The inputs. *)

\* i/n of 1.0, for i in 0..n
Grid(n) == {(i * One) \div n : i \in 0..n}

\* The one-decimal values (the code's own defaults 0.9 and 0.5 are such) and
\* a grid of values with more decimals.
ScoreGrid == Grid(10) \cup Grid(MaxScoreIdx)
ConfGrid == Grid(10) \cup Grid(MaxConfIdx)

\* A dict with key k for each value of vals, and the dict without the key.
Optional(k, vals) == {<<>>} \cup {k :> v : v \in vals}

\* The verdicts an ML pipeline hands to _combine_decisions: any probability
\* with any decision, from either path.
MLVerdicts ==
    {[ml_risk_score |-> s, ml_risk_level |-> RiskLevel(s), ml_prediction |-> d,
      model_used |-> "ML_MODEL", feature_count |-> 44]
        : s \in ScoreGrid, d \in {"ACCEPT", "REJECT"}}
    \cup
    {[ml_risk_score |-> s, ml_risk_level |-> RiskLevel(s), ml_prediction |-> d,
      model_used |-> "PLACEHOLDER_HEURISTIC", feature_count |-> 44,
      warning |-> "Using placeholder prediction - ML model not loaded"]
        : s \in ScoreGrid, d \in {"ACCEPT", "REJECT"}}

\* The verdicts of decision_agent.run, every key optional as
\* _combine_decisions reads them, with confidences from confs.
QdrantVerdicts(confs) ==
    {m @@ d @@ c @@ k
        : m \in Optional("mode", {"NORMAL", "FRAUD_STOP", "COLD_START"}),
          d \in Optional("final_decision", {"ACCEPT", "REJECT"}),
          c \in Optional("confidence", confs),
          k \in Optional("conditions", {<<>>, <<"REDUCED_AMOUNT">>})}

\* The application of scripts/test_ml_integration.py, in which the fields
\* in varied are replaced.
TestApplication(client, personal, professional, financial, risks) ==
    [client_identity |->
         client @@ [age |-> 35, client_status |-> "ESTABLISHED",
                    interaction_frequency |-> "REGULAR"],
     personal_situation |->
         personal @@ [marital_status |-> "MARRIED", dependents_count |-> 2],
     professional_situation |->
         professional @@ [sector |-> "TECHNOLOGY", seniority_years |-> 8,
                          stability |-> "HIGH"],
     financial_situation |->
         financial @@ [monthly_income_net |-> 3500,
                       monthly_fixed_expenses |-> 1800,
                       existing_credits_total |-> 10000,
                       existing_credits_monthly_payment |-> 300,
                       available_savings |-> 15000,
                       banking_history |-> "NO_INCIDENT"],
     credit_request |->
         [credit_type |-> "PERSONAL", amount_requested |-> 20000,
          duration_months |-> 48, purpose |-> "NECESSARY_EXPENSE"],
     behavioral_indicators |->
         [stress_level |-> 2, urgency_level |-> 3, project_clarity |-> 4,
          engagement_level |-> 5, discourse_coherence |-> "HIGH"],
     real_intention |->
         [main_motivation |-> "NECESSITY", projection_capacity |-> "LONG_TERM"],
     risk_checklist |-> risks,
     synthesis |->
         [global_risk_profile |-> "LOW",
          theoretical_repayment_capacity |-> "GOOD"]]

SpouseRecord == [professional_status |-> "EMPLOYED", monthly_income |-> 2500]

\* spouse_exists and spouse_info: unset (absent or None) and set.
PersonalChoices ==
    {<<>>,
     [spouse_exists |-> FALSE, spouse_info |-> NoneDict],
     [spouse_exists |-> TRUE, spouse_info |-> NoneDict],
     [spouse_exists |-> TRUE, spouse_info |-> SpouseRecord]}

RiskChoices ==
    {[professional_instability |-> FALSE, high_debt |-> FALSE,
      spouse_income_dependency |-> FALSE, non_priority_project |-> FALSE,
      excessive_urgency |-> FALSE, incoherent_discourse |-> FALSE],
     [professional_instability |-> TRUE, high_debt |-> TRUE,
      spouse_income_dependency |-> FALSE, non_priority_project |-> FALSE,
      excessive_urgency |-> TRUE, incoherent_discourse |-> FALSE]}

\* The application records a request carries.
Applications ==
    {TestApplication(client, personal, professional, financial, risks)
        : client \in Optional("banking_seniority_years", {None, 5}),
          personal \in PersonalChoices,
          professional \in {[professional_status |-> "EMPLOYEE_CDI"],
                            [professional_status |-> "UNEMPLOYED"]},
          financial \in Optional("debt_ratio", {None, 860, 6000}),
          risks \in RiskChoices}

\* The verdicts decision_agent.run returns to process_application.
PipelineVerdicts ==
    {q \in QdrantVerdicts({8000}) :
        /\ "mode" \in DOMAIN q
        /\ "final_decision" \in DOMAIN q
        /\ "conditions" \notin DOMAIN q}

ModelKinds == {"NONE", "PROBA", "LABEL"}

\* The probabilities of default predict_proba returns: a grid, and the
\* thresholds predict compares with (0.3, 0.5, 0.6), each with a neighbour
\* on either side that round(., 3) moves onto it.
ModelProbs ==
    Grid(MaxProbIdx) \cup {t + d : t \in {3000, 5000, 6000}, d \in {-4, 0, 4}}

\* What a loaded model may do when invoked.
ModelOutcomes(mdl) ==
    IF mdl = "NONE" THEN {[kind |-> "unused"]}
    ELSE {[kind |-> "fault"]}
         \cup (IF mdl = "PROBA"
               THEN {[kind |-> "proba", p |-> p] : p \in ModelProbs}
               ELSE {[kind |-> "label", label |-> l] : l \in {0, 1}})

-----------------------------------------------------------------------------
(* ExtendedSubmissionService.process_application, one request after another *)

\* ml_result = self.ml_agent.predict(application_data)
Predict ==
    /\ pc = "start"
    /\ \E o \in ModelOutcomes(model) :
          LET r == predict(model, application, o)
          IN  /\ model_outcome' = IF ~r.invoked THEN "not_invoked"
                                  ELSE IF o.kind = "fault" THEN "faulted"
                                  ELSE "returned"
              /\ ml_result' = r.result
              /\ features_df' = r.df
              /\ raw_score' = r.score
              /\ exc' = r.raised
              /\ pc' = IF r.raised = "none" THEN "ml_done" ELSE "raised"
    /\ UNCHANGED <<earlier, requests, model_file, model, half_up,
                   application, qdrant_decision,
                   final_result>>

\* text_summary = self._generate_text_summary(application_data)
TextSummary ==
    /\ pc = "ml_done"
    /\ LET r == generate_text_summary(application)
       IN  /\ exc' = r.raised
           /\ pc' = IF r.raised = "none" THEN "summarised" ELSE "raised"
    /\ UNCHANGED <<earlier, requests, model_file, model, half_up,
                   application, ml_result,
                   qdrant_decision, final_result, model_outcome, features_df,
                   raw_score>>

\* The collaborators return: embed, retrieve, fraud, risk and scenario
\* agents, then qdrant_decision = self.decision_agent.run(...).
QdrantPipeline ==
    /\ pc = "summarised"
    /\ qdrant_decision' \in PipelineVerdicts
    /\ pc' = "qdrant_done"
    /\ UNCHANGED <<earlier, requests, model_file, model, half_up,
                   application, ml_result,
                   final_result, exc, model_outcome, features_df, raw_score>>

\* final_result = self._combine_decisions(...); return final_result
Combine ==
    /\ pc = "qdrant_done"
    /\ final_result' = combine_decisions(ml_result, qdrant_decision)
    /\ pc' = "done"
    /\ UNCHANGED <<earlier, requests, model_file, model, half_up,
                   application, ml_result,
                   qdrant_decision, exc, model_outcome, features_df, raw_score>>

\* The next call of process_application on the same service.
NextRequest ==
    /\ pc \in {"done", "raised"}
    /\ application' \in Applications
    /\ pc' = "start"
    /\ ml_result' = NoDict
    /\ qdrant_decision' = NoDict
    /\ final_result' = NoDict
    /\ exc' = "none"
    /\ model_outcome' = "not_invoked"
    /\ features_df' = NoDict
    /\ raw_score' = None
    /\ UNCHANGED <<earlier, requests, model_file, model, half_up>>

\* After MLRiskAgent.__init__ and at the first request.
Init ==
    /\ model_file \in ModelFiles
    /\ model = load_model(model_file)
    /\ half_up \in BOOLEAN
    /\ application \in Applications
    /\ pc = "start"
    /\ ml_result = NoDict
    /\ qdrant_decision = NoDict
    /\ final_result = NoDict
    /\ exc = "none"
    /\ model_outcome = "not_invoked"
    /\ features_df = NoDict
    /\ raw_score = None
    /\ earlier = NoEarlier
    /\ requests = <<>>

Next == Predict \/ TextSummary \/ QdrantPipeline \/ Combine \/ NextRequest

Spec == Init /\ [][Next]_vars

\* _combine_decisions alone, on every pair of verdicts.
FuseInit ==
    /\ model_file = "ABSENT"
    /\ model = load_model(model_file)
    /\ half_up \in BOOLEAN
    /\ application = <<>>
    /\ pc = "qdrant_done"
    /\ ml_result \in MLVerdicts
    /\ qdrant_decision \in QdrantVerdicts(ConfGrid)
    /\ final_result = NoDict
    /\ exc = "none"
    /\ model_outcome = "not_invoked"
    /\ features_df = NoDict
    /\ raw_score = None
    /\ earlier = NoEarlier
    /\ requests = <<>>

FuseNext == Combine

FuseSpec == FuseInit /\ [][FuseNext]_vars

-----------------------------------------------------------------------------
(* MLRiskAgent.predict alone, as scripts/test_ml_integration.py calls it. *)

\* The keys of RiskChecklist, in the order extract_features reads them.
RiskKeys ==
    <<"professional_instability", "high_debt", "spouse_income_dependency",
      "non_priority_project", "excessive_urgency", "incoherent_discourse">>

\* The checklist whose first n flags are raised.
RiskChecklist(n) ==
    [k \in {RiskKeys[i] : i \in 1..Len(RiskKeys)} |->
        (CHOOSE i \in 1..Len(RiskKeys) : RiskKeys[i] = k) <= n]

\* Applications on either side of each condition _placeholder_prediction
\* tests: 2 and 3 raised flags, a debt ratio of 0.5 and above, employment,
\* banking history, job stability.
ScoreApplications ==
    {TestApplication(<<>>, <<>>,
                     [professional_status |-> ps, stability |-> st],
                     debt @@ [banking_history |-> bh],
                     RiskChecklist(n))
        : ps \in {"EMPLOYEE_CDI", "UNEMPLOYED"},
          st \in {"HIGH", "LOW"},
          debt \in Optional("debt_ratio", {5000, 6000}),
          bh \in {"NO_INCIDENT", "MAJOR_INCIDENTS"},
          n \in {0, 2, 3, 6}}

\* agent = MLRiskAgent(); the application handed to agent.predict
ScoreInit ==
    /\ model_file \in ModelFiles
    /\ model = load_model(model_file)
    /\ half_up \in BOOLEAN
    /\ application \in ScoreApplications
    /\ pc = "start"
    /\ ml_result = NoDict
    /\ qdrant_decision = NoDict
    /\ final_result = NoDict
    /\ exc = "none"
    /\ model_outcome = "not_invoked"
    /\ features_df = NoDict
    /\ raw_score = None
    /\ earlier = NoEarlier
    /\ requests = <<>>

\* result = agent.predict(test_application)
ScoreNext == Predict

ScoreSpec == ScoreInit /\ [][ScoreNext]_vars

-----------------------------------------------------------------------------
(* MLRiskAgent.extract_features alone, as scripts/test_ml_integration.py  *)
(* calls it.                                                               *)

\* The application of scripts/test_ml_integration.py.
FullApplication ==
    TestApplication([banking_seniority_years |-> 5],
                    [spouse_exists |-> TRUE, spouse_info |-> SpouseRecord],
                    [professional_status |-> "EMPLOYEE_CDI"],
                    [debt_ratio |-> 860],
                    RiskChecklist(0))

\* The sections extract_features reads with application.get(section, {}).
Sections == DOMAIN FullApplication

\* <<section, field>> for every field of the application.
FieldPaths ==
    UNION {{<<sec, k>> : k \in DOMAIN FullApplication[sec]} : sec \in Sections}

\* The dict d without the keys in keys.
Without(d, keys) == [k \in DOMAIN d \ keys |-> d[k]]

\* The application without the fields in paths.
DropFields(app, paths) ==
    [sec \in DOMAIN app |->
        Without(app[sec], {q[2] : q \in {r \in paths : r[1] = sec}})]

\* The subsets of S of at most n elements.
RECURSIVE SubsetsUpTo(_, _)
SubsetsUpTo(S, n) ==
    IF n = 0 THEN {{}}
    ELSE LET smaller == SubsetsUpTo(S, n - 1)
         IN  smaller \cup {F \cup {x} : F \in smaller, x \in S}

\* spouse_exists unset, False and True, with spouse_info unset, None, without
\* an income and with one.
SpouseChoices ==
    {e @@ i : e \in Optional("spouse_exists", {FALSE, TRUE}),
              i \in Optional("spouse_info",
                             {NoneDict, [professional_status |-> "EMPLOYED"],
                              SpouseRecord})}

\* The checklists in which each flag is absent, False or True.
Checklists ==
    {[k \in S |-> k \in T]
        : <<S, T>> \in {st \in (SUBSET {RiskKeys[i] : i \in 1..Len(RiskKeys)})
                                \X (SUBSET {RiskKeys[i] : i \in 1..Len(RiskKeys)})
                           : st[2] \subseteq st[1]}}

\* The application records handed to extract_features: the test application
\* without any subset of its sections, without a few of its fields, with
\* each checklist, and with each spouse choice and a negative, zero,
\* positive or absent income.
ExtractApplications ==
    {Without(FullApplication, S) : S \in SUBSET Sections}
    \cup
    {[FullApplication EXCEPT !.risk_checklist = c] : c \in Checklists}
    \cup
    {DropFields(FullApplication, F) : F \in SubsetsUpTo(FieldPaths, MaxDroppedFields)}
    \cup
    {DropFields(TestApplication(<<>>, personal,
                                [professional_status |-> "EMPLOYEE_CDI"],
                                [monthly_income_net |-> income],
                                RiskChecklist(0)), F)
        : personal \in SpouseChoices,
          income \in {-500, 0, 3500},
          F \in SUBSET {<<"financial_situation", "monthly_income_net">>,
                        <<"financial_situation", "monthly_fixed_expenses">>,
                        <<"credit_request", "amount_requested">>}}

\* agent = MLRiskAgent(); the application handed to agent.extract_features
ExtractInit ==
    /\ model_file \in ModelFiles
    /\ model = load_model(model_file)
    /\ half_up \in BOOLEAN
    /\ application \in ExtractApplications
    /\ pc = "extract"
    /\ ml_result = NoDict
    /\ qdrant_decision = NoDict
    /\ final_result = NoDict
    /\ exc = "none"
    /\ model_outcome = "not_invoked"
    /\ features_df = NoDict
    /\ raw_score = None
    /\ earlier = NoEarlier
    /\ requests = <<>>

\* features_df = agent.extract_features(test_application)
Extract ==
    /\ pc = "extract"
    /\ LET ex == extract_features(application)
       IN  /\ features_df' = IF ex.raised = "none"
                             THEN [columns |-> ex.columns, row |-> ex.features]
                             ELSE NoDict
           /\ exc' = ex.raised
           /\ pc' = IF ex.raised = "none" THEN "extracted" ELSE "raised"
    /\ UNCHANGED <<earlier, requests, model_file, model, half_up,
                   application, ml_result,
                   qdrant_decision, final_result, model_outcome, raw_score>>

ExtractNext == Extract

ExtractSpec == ExtractInit /\ [][ExtractNext]_vars

-----------------------------------------------------------------------------
(* extract_features and _combine_decisions called again and again on the   *)
(* same agent and the same service.                                        *)

\* The test application, with and without its spouse flag, and the
\* application without any section.
ReplayApplications ==
    {FullApplication,
     [FullApplication EXCEPT !.personal_situation.spouse_exists = FALSE],
     Without(FullApplication, Sections)}

\* Two verdicts of predict; 1 - 0.125 is a tie of round(., 2).
ReplayMLVerdicts ==
    {[ml_risk_score |-> 1250, ml_risk_level |-> RiskLevel(1250),
      ml_prediction |-> "ACCEPT", model_used |-> "ML_MODEL",
      feature_count |-> 44],
     [ml_risk_score |-> 7500, ml_risk_level |-> RiskLevel(7500),
      ml_prediction |-> "REJECT", model_used |-> "ML_MODEL",
      feature_count |-> 44]}

\* Verdicts of decision_agent.run in the modes that round a confidence.
ReplayQdrantVerdicts ==
    {[mode |-> "COLD_START", final_decision |-> "ACCEPT", confidence |-> 5000],
     [mode |-> "NORMAL", final_decision |-> "ACCEPT", confidence |-> 7000],
     [mode |-> "NORMAL", final_decision |-> "REJECT", confidence |-> 7000]}

\* The inputs of the call that starts: of extract_features or of
\* _combine_decisions.
CallStarts(p, app, ml, qd) ==
    \/ /\ p = "extract"
       /\ app \in ReplayApplications
       /\ ml = NoDict /\ qd = NoDict
    \/ /\ p = "qdrant_done"
       /\ app = <<>>
       /\ ml \in ReplayMLVerdicts /\ qd \in ReplayQdrantVerdicts

\* The agent and the service are constructed and the first call starts.
ReplayInit ==
    /\ model_file \in ModelFiles
    /\ model = load_model(model_file)
    /\ half_up \in BOOLEAN
    /\ pc \in {"extract", "qdrant_done"}
    /\ application \in ReplayApplications \cup {<<>>}
    /\ ml_result \in ReplayMLVerdicts \cup {NoDict}
    /\ qdrant_decision \in ReplayQdrantVerdicts \cup {NoDict}
    /\ CallStarts(pc, application, ml_result, qdrant_decision)
    /\ final_result = NoDict
    /\ exc = "none"
    /\ model_outcome = "not_invoked"
    /\ features_df = NoDict
    /\ raw_score = None
    /\ earlier = NoEarlier
    /\ requests = <<>>

\* The call has returned to its caller, which keeps the result, and the
\* next call starts on the same objects.
NextCall ==
    /\ pc \in {"extracted", "done"}
    /\ Cardinality(earlier.extract) + Cardinality(earlier.fuse) < MaxEarlier
    /\ earlier' =
          IF pc = "extracted"
          THEN [earlier EXCEPT !.extract =
                   @ \cup {[input |-> application, output |-> features_df]}]
          ELSE [earlier EXCEPT !.fuse =
                   @ \cup {[input  |-> <<ml_result, qdrant_decision>>,
                            output |-> final_result]}]
    /\ pc' \in {"extract", "qdrant_done"}
    /\ application' \in ReplayApplications \cup {<<>>}
    /\ ml_result' \in ReplayMLVerdicts \cup {NoDict}
    /\ qdrant_decision' \in ReplayQdrantVerdicts \cup {NoDict}
    /\ CallStarts(pc', application', ml_result', qdrant_decision')
    /\ features_df' = NoDict
    /\ final_result' = NoDict
    /\ UNCHANGED <<requests, model_file, model, half_up, exc, model_outcome,
                   raw_score>>

ReplayNext == Extract \/ Combine \/ NextCall

ReplaySpec == ReplayInit /\ [][ReplayNext]_vars

-----------------------------------------------------------------------------
(* MLRiskAgent.predict called by several threads on one agent, statement   *)
(* by statement.                                                           *)

\* An application that takes the heuristic far, beside the test application.
ConcurrentApplications ==
    {FullApplication,
     TestApplication(<<>>, <<>>, [professional_status |-> "UNEMPLOYED"],
                     <<>>, RiskChecklist(3))}

\* What the model does for a call in flight: it raises, or returns a
\* probability at or above the decision threshold, or a label.
ConcurrentOutcomes(mdl) ==
    {o \in ModelOutcomes(mdl) : o.kind = "proba" => o.p \in {5000, 5004}}

\* A call of predict(app) that has not run its first statement.
NewRequest(app) ==
    [pc          |-> "start",
     application |-> app,
     features_df |-> NoDict,
     outcome     |-> [kind |-> "unused"],
     invocations |-> 0,
     heuristics  |-> 0,
     after_fault |-> FALSE,
     result      |-> NoDict]

\* agent = MLRiskAgent(); MaxRequests threads call agent.predict
ConcurrentInit ==
    /\ model_file \in ModelFiles
    /\ model = load_model(model_file)
    /\ half_up \in BOOLEAN
    /\ application = <<>>
    /\ pc = "serving"
    /\ ml_result = NoDict
    /\ qdrant_decision = NoDict
    /\ final_result = NoDict
    /\ exc = "none"
    /\ model_outcome = "not_invoked"
    /\ features_df = NoDict
    /\ raw_score = None
    /\ earlier = NoEarlier
    /\ requests \in {[r \in 1..MaxRequests |-> NewRequest(apps[r])]
                       : apps \in [1..MaxRequests -> ConcurrentApplications]}

\* features_df = self.extract_features(application).  after_fault: the
\* model has already raised in a call that has returned.
PredictExtract(r) ==
    /\ requests[r].pc = "start"
    /\ LET ex == extract_features(requests[r].application)
       IN  requests' =
             [requests EXCEPT ![r] =
                [@ EXCEPT !.pc = IF ex.raised = "none" THEN "extracted"
                                 ELSE "raised",
                          !.features_df = [columns |-> ex.columns,
                                           row     |-> ex.features],
                          !.after_fault =
                              \E q \in DOMAIN requests :
                                  /\ requests[q].pc = "done"
                                  /\ requests[q].outcome.kind = "fault"]]
    /\ UNCHANGED <<earlier, model_file, model, half_up, application, pc,
                   ml_result, qdrant_decision, final_result, exc,
                   model_outcome, features_df, raw_score>>

\* Mutant: a fault unloads the model.
PredictInvokeUnloads(r) ==
    /\ requests[r].pc = "extracted"
    /\ model # "NONE"
    /\ \E o \in ConcurrentOutcomes(model) :
          /\ requests' =
                [requests EXCEPT ![r] =
                   [@ EXCEPT !.invocations = @ + 1,
                             !.outcome = o,
                             !.pc = IF o.kind = "fault" THEN "except" ELSE "done",
                             !.result =
                                 IF o.kind = "fault" THEN NoDict
                                 ELSE IF o.kind = "proba"
                                 THEN ModelVerdict(o.p,
                                                   IF o.p > 5000 THEN 1 ELSE 0,
                                                   requests[r].features_df.row)
                                 ELSE ModelVerdict(o.label * One, o.label,
                                                   requests[r].features_df.row)]]
          /\ model' = IF o.kind = "fault" THEN "NONE" ELSE model
    /\ UNCHANGED <<earlier, model_file, half_up, application, pc,
                   ml_result, qdrant_decision, final_result, exc,
                   model_outcome, features_df, raw_score>>

\* Mutant: a model that raises is invoked again.
PredictInvokeRetries(r) ==
    /\ requests[r].pc = "extracted"
    /\ model # "NONE"
    /\ \E o \in ConcurrentOutcomes(model) :
          requests' =
            [requests EXCEPT ![r] =
               [@ EXCEPT !.invocations = @ + 1,
                         !.outcome = o,
                         !.pc = IF o.kind = "fault" THEN "extracted" ELSE "done",
                         !.result =
                             IF o.kind = "fault" THEN NoDict
                             ELSE IF o.kind = "proba"
                             THEN ModelVerdict(o.p,
                                               IF o.p > 5000 THEN 1 ELSE 0,
                                               requests[r].features_df.row)
                             ELSE ModelVerdict(o.label * One, o.label,
                                               requests[r].features_df.row)]]
    /\ UNCHANGED <<earlier, model_file, model, half_up, application, pc,
                   ml_result, qdrant_decision, final_result, exc,
                   model_outcome, features_df, raw_score>>

\* The try block with a model loaded: predict_proba or predict is called
\* once; the verdict is returned, or the exception reaches the except
\* clause.  self.model is read, never assigned.
PredictInvoke(r) ==
    /\ requests[r].pc = "extracted"
    /\ model # "NONE"
    /\ \E o \in ConcurrentOutcomes(model) :
          requests' =
            [requests EXCEPT ![r] =
               [@ EXCEPT !.invocations = @ + 1,
                         !.outcome = o,
                         !.pc = IF o.kind = "fault" THEN "except" ELSE "done",
                         !.result =
                             IF o.kind = "fault" THEN NoDict
                             ELSE IF o.kind = "proba"
                             THEN ModelVerdict(o.p,
                                               IF o.p > 5000 THEN 1 ELSE 0,
                                               requests[r].features_df.row)
                             ELSE ModelVerdict(o.label * One, o.label,
                                               requests[r].features_df.row)]]
    /\ UNCHANGED <<earlier, model_file, model, half_up, application, pc,
                   ml_result, qdrant_decision, final_result, exc,
                   model_outcome, features_df, raw_score>>

\* return self._placeholder_prediction(features_df): with no model loaded,
\* and in the except clause.
PredictPlaceholder(r) ==
    /\ \/ requests[r].pc = "extracted" /\ model = "NONE"
       \/ requests[r].pc = "except"
    /\ requests' =
          [requests EXCEPT ![r] =
             [@ EXCEPT !.heuristics = @ + 1,
                       !.pc = "done",
                       !.result =
                           placeholder_prediction(requests[r].features_df.row)]]
    /\ UNCHANGED <<earlier, model_file, model, half_up, application, pc,
                   ml_result, qdrant_decision, final_result, exc,
                   model_outcome, features_df, raw_score>>

ConcurrentNext ==
    \E r \in DOMAIN requests :
        PredictExtract(r) \/ PredictInvoke(r) \/ PredictPlaceholder(r)

ConcurrentSpec == ConcurrentInit /\ [][ConcurrentNext]_vars

-----------------------------------------------------------------------------
(* The training data: scripts/generate_synthetic_data.py and               *)
(* scripts/train_model.py.                                                 *)

\* The columns of the generated dataset, the keys of the row dict in order.
DatasetColumns ==
    <<"age", "banking_seniority_years", "client_status_is_new",
      "interaction_frequency_rare", "dependents_count", "has_spouse",
      "spouse_income", "is_married", "is_employed_cdi", "is_unemployed",
      "job_seniority_years", "job_stability_high", "job_stability_low",
      "monthly_income", "monthly_expenses", "existing_debt",
      "debt_monthly_payment", "debt_ratio", "available_savings",
      "has_banking_incidents", "major_banking_incidents", "amount_requested",
      "duration_months", "is_real_estate", "is_investment",
      "is_comfort_expense", "stress_level", "urgency_level",
      "project_clarity", "engagement_level", "low_coherence",
      "external_pressure", "short_term_only",
      "risk_professional_instability", "risk_high_debt",
      "risk_spouse_dependency", "risk_non_priority",
      "risk_excessive_urgency", "risk_incoherent", "total_risk_flags",
      "global_risk_high", "repayment_capacity_insufficient", "expense_ratio",
      "credit_to_income_ratio", "default">>

\* A column other than the target.
IsFeatureColumn(c) == c # "default"

\* prepare_features(df): feature_names, the column at each position of X.
prepare_features(columns) == SelectSeq(columns, IsFeatureColumn)

-----------------------------------------------------------------------------
(* Properties of _combine_decisions, checked under FuseSpec. *)

Abs(x) == IF x < 0 THEN -x ELSE x

Has(d, k) == k \in DOMAIN d

\* The qualitative verdict's mode; a verdict without one is in NORMAL mode.
QMode == IF Has(qdrant_decision, "mode") THEN qdrant_decision.mode ELSE "NORMAL"

\* fuse has returned.
Fused == pc = "done" /\ DOMAIN final_result # {}

\* Both verdicts carry a decision and the decisions are a and b.
Decisions(a, b) ==
    /\ ml_result.ml_prediction = a
    /\ Has(qdrant_decision, "final_decision")
    /\ qdrant_decision.final_decision = b

\* r is a multiple of 0.01 nearest to x/2 (x/2 in fixed point).
IsHalfRoundedTo2(r, x) == r % 100 = 0 /\ Abs(2 * r - x) <= 100

\* C1: in FRAUD_STOP mode fuse returns REJECT for every ML verdict, with the
\* qualitative verdict's confidence (0.9 when it carries none) and the flag that
\* routes the case to manual investigation.
C1_FraudStopRejects ==
    (Fused /\ QMode = "FRAUD_STOP") =>
        /\ final_result.final_decision = "REJECT"
        /\ final_result.confidence =
              (IF Has(qdrant_decision, "confidence")
               THEN qdrant_decision.confidence ELSE 9000)
        /\ Has(final_result, "action")
        /\ final_result.action = "SEND_TO_INVESTIGATION"

\* C1 witness: a fraud stop without a confidence overrides an ML ACCEPT of
\* probability 0.
C1_Witness ==
    /\ Fused /\ QMode = "FRAUD_STOP"
    /\ ml_result.ml_prediction = "ACCEPT" /\ ml_result.ml_risk_score = 0
    /\ ~Has(qdrant_decision, "confidence")
    /\ final_result.final_decision = "REJECT"
    /\ final_result.confidence = 9000

\* C2: in NORMAL mode, when one verdict is ACCEPT and the other REJECT, fuse
\* returns the ML decision with confidence exactly 0.5, human validation
\* required, the outcome marked MANUAL_REVIEW_REQUIRED and a conflict detail
\* holding each side's decision and confidence.
C2_DisagreementToHuman ==
    (Fused /\ QMode = "NORMAL"
       /\ (Decisions("ACCEPT", "REJECT") \/ Decisions("REJECT", "ACCEPT"))) =>
        /\ final_result.final_decision = ml_result.ml_prediction
        /\ final_result.confidence = 5000
        /\ Has(final_result, "human_validation_required")
        /\ final_result.human_validation_required = TRUE
        /\ final_result.mode = "MANUAL_REVIEW_REQUIRED"
        /\ Has(final_result, "conflict_details")
        /\ final_result.conflict_details.ml_says = ml_result.ml_prediction
        /\ final_result.conflict_details.qdrant_says
              = qdrant_decision.final_decision
        /\ IsHalfRoundedTo2(final_result.conflict_details.ml_confidence,
                            2 * (One - ml_result.ml_risk_score))
        /\ Has(qdrant_decision, "confidence") =>
              final_result.conflict_details.qdrant_confidence
                = qdrant_decision.confidence

\* C2 witness: ML REJECT against a qualitative ACCEPT.
C2_Witness ==
    /\ Fused /\ QMode = "NORMAL" /\ Decisions("REJECT", "ACCEPT")
    /\ Has(qdrant_decision, "confidence")
    /\ final_result.final_decision = "REJECT"
    /\ final_result.reason = "MODELS_DISAGREE"

\* C3: in COLD_START mode, for every ML verdict and whatever the qualitative
\* verdict decides, fuse returns the ML decision, confidence 1 - probability
\* rounded to two decimals, and human validation required.
C3_ColdStartDefersToMl ==
    (Fused /\ QMode = "COLD_START") =>
        /\ final_result.final_decision = ml_result.ml_prediction
        /\ IsHalfRoundedTo2(final_result.confidence,
                            2 * (One - ml_result.ml_risk_score))
        /\ Has(final_result, "human_validation_required")
        /\ final_result.human_validation_required = TRUE

\* C3 witness: the documented scenario, probability 0.2 and ACCEPT, against a
\* qualitative REJECT.
C3_Witness ==
    /\ Fused /\ QMode = "COLD_START"
    /\ ml_result.ml_risk_score = 2000 /\ Decisions("ACCEPT", "REJECT")
    /\ final_result.final_decision = "ACCEPT"
    /\ final_result.confidence = 8000

\* C4: in NORMAL mode, when both verdicts are ACCEPT, fuse returns ACCEPT with
\* confidence 0.5*(1 - probability) + 0.5*confidence rounded to two decimals,
\* and the qualitative verdict's conditions unchanged (an empty list when it
\* has none).
C4_AgreeAccept ==
    (Fused /\ QMode = "NORMAL" /\ Decisions("ACCEPT", "ACCEPT")) =>
        /\ final_result.final_decision = "ACCEPT"
        /\ Has(qdrant_decision, "confidence") =>
              IsHalfRoundedTo2(final_result.confidence,
                               (One - ml_result.ml_risk_score)
                                 + qdrant_decision.confidence)
        /\ Has(final_result, "conditions")
        /\ final_result.conditions =
              (IF Has(qdrant_decision, "conditions")
               THEN qdrant_decision.conditions ELSE <<>>)

\* C4 witness: the documented scenario, probability 0.1 and confidence 0.8
\* give 0.85, with a condition carried forward.
C4_Witness ==
    /\ Fused /\ QMode = "NORMAL" /\ Decisions("ACCEPT", "ACCEPT")
    /\ ml_result.ml_risk_score = 1000
    /\ Has(qdrant_decision, "confidence") /\ qdrant_decision.confidence = 8000
    /\ Has(qdrant_decision, "conditions")
    /\ qdrant_decision.conditions = <<"REDUCED_AMOUNT">>
    /\ final_result.confidence = 8500
    /\ final_result.conditions = <<"REDUCED_AMOUNT">>

\* C5: in NORMAL mode, when both verdicts are REJECT, fuse returns REJECT with
\* confidence 0.5*probability + 0.5*(1 - confidence) rounded to two decimals,
\* without a human-validation flag and without a conflict detail.
C5_AgreeReject ==
    (Fused /\ QMode = "NORMAL" /\ Decisions("REJECT", "REJECT")) =>
        /\ final_result.final_decision = "REJECT"
        /\ Has(qdrant_decision, "confidence") =>
              IsHalfRoundedTo2(final_result.confidence,
                               ml_result.ml_risk_score
                                 + (One - qdrant_decision.confidence))
        /\ ~Has(final_result, "human_validation_required")
        /\ ~Has(final_result, "conflict_details")

\* C5 witness: probability 0.9 and confidence 0.2 give 0.85.
C5_Witness ==
    /\ Fused /\ QMode = "NORMAL" /\ Decisions("REJECT", "REJECT")
    /\ ml_result.ml_risk_score = 9000
    /\ Has(qdrant_decision, "confidence") /\ qdrant_decision.confidence = 2000
    /\ final_result.final_decision = "REJECT"
    /\ final_result.confidence = 8500

\* C8: every confidence fuse emits, in every mode and inside the conflict
\* detail, is rounded to two decimal places.
C8_EveryConfidenceRounded ==
    Fused =>
        /\ final_result.confidence % 100 = 0
        /\ Has(final_result, "conflict_details") =>
              /\ final_result.conflict_details.ml_confidence % 100 = 0
              /\ final_result.conflict_details.qdrant_confidence % 100 = 0

\* C9: for probabilities and confidences in [0,1], in any mode, the fused
\* final_decision is ACCEPT or REJECT and the fused confidence is in [0,1].
C9_FusedInRange ==
    Fused =>
        /\ final_result.final_decision \in {"ACCEPT", "REJECT"}
        /\ final_result.confidence >= 0
        /\ final_result.confidence <= One

\* C9 witness: an agreement on REJECT at the top of the range, probability 1
\* against confidence 0.
C9_Witness ==
    /\ Fused /\ final_result.reason = "BOTH_MODELS_AGREE_REJECT"
    /\ ml_result.ml_risk_score = One
    /\ Has(qdrant_decision, "confidence") /\ qdrant_decision.confidence = 0
    /\ final_result.confidence = One

\* C10: fuse leaves both input verdicts as they are and its result holds both
\* exactly as passed, no field added, dropped or changed, in every outcome.
C10_VerdictsVerbatim ==
    [][pc = "qdrant_done" =>
         /\ ml_result' = ml_result
         /\ qdrant_decision' = qdrant_decision
         /\ final_result'.ml_assessment = ml_result
         /\ final_result'.qdrant_assessment = qdrant_decision]_vars

\* C10 witness: a disagreement holding a heuristic verdict (with its warning)
\* and a qualitative verdict with conditions.
C10_Witness ==
    /\ Fused /\ final_result.reason = "MODELS_DISAGREE"
    /\ Has(ml_result, "warning") /\ Has(qdrant_decision, "conditions")
    /\ final_result.ml_assessment = ml_result
    /\ final_result.qdrant_assessment = qdrant_decision

-----------------------------------------------------------------------------
(* Properties of predict and process_application, checked under Spec. *)

C7_NeverRaises == pc # "raised" /\ exc = "none"

-----------------------------------------------------------------------------
(* Properties of predict, checked under ScoreSpec. *)

\* predict has returned a verdict.
Scored == pc = "ml_done" /\ DOMAIN ml_result # {}

\* C11: a verdict's model_used is ML_MODEL exactly when the file at
\* model_path held a loadable model and the model returned for this request;
\* it is PLACEHOLDER_HEURISTIC when the file is absent, when it is unreadable
\* and when the invocation faults.  Every verdict carries feature_count, the
\* number of columns of the feature vector.
C11_SourceReportsPath ==
    Scored =>
        /\ ml_result.model_used =
              (IF model_file \in {"PROBA", "LABEL"} /\ model_outcome = "returned"
               THEN "ML_MODEL" ELSE "PLACEHOLDER_HEURISTIC")
        /\ Has(ml_result, "feature_count")
        /\ ml_result.feature_count = Len(features_df.columns)

\* C11 witness: an unreadable model file, and a heuristic verdict over the 44
\* features.
C11_Witness ==
    /\ Scored /\ model_file = "UNREADABLE"
    /\ ml_result.model_used = "PLACEHOLDER_HEURISTIC"
    /\ ml_result.feature_count = 44

\* The five increments of the heuristic for a feature row: the increment of
\* each condition that holds, 0 for one that does not.
Increments(row) ==
    <<IF row.total_risk_flags >= 3 THEN 3000 ELSE 0,
      IF row.debt_ratio > 5000 THEN 2000 ELSE 0,
      IF row.is_unemployed = 1 THEN 3000 ELSE 0,
      IF row.major_banking_incidents = 1 THEN 2500 ELSE 0,
      IF row.job_stability_low = 1 THEN 1500 ELSE 0>>

\* The orders in which five increments can be added.
Orders ==
    {o \in [1..5 -> 1..5] : \A i, j \in 1..5 : o[i] = o[j] => i = j}

\* base, then incs[order[1]], ..., incs[order[n]] added one after another.
RECURSIVE AddInOrder(_, _, _, _)
AddInOrder(base, incs, order, n) ==
    IF n = 0 THEN base
    ELSE AddInOrder(base, incs, order, n - 1) + incs[order[n]]

\* C12: the heuristic score is min(1, 0.3 + 0.3[total_risk_flags >= 3]
\* + 0.2[debt_ratio > 0.5] + 0.3[unemployed] + 0.25[major banking incident]
\* + 0.15[low job stability]) for every combination of the five conditions,
\* whatever the order in which the increments are added.
C12_HeuristicFormula ==
    (Scored /\ ml_result.model_used = "PLACEHOLDER_HEURISTIC") =>
        \A order \in Orders :
            LET score == Min(One, AddInOrder(3000, Increments(features_df.row),
                                             order, 5))
            IN  raw_score = score /\ ml_result.ml_risk_score = score

\* C12 witness: a debt ratio of exactly 0.5 adds nothing and two raised
\* flags add nothing: major incidents alone give 0.55.
C12_Witness ==
    /\ Scored /\ ml_result.model_used = "PLACEHOLDER_HEURISTIC"
    /\ features_df.row.debt_ratio = 5000
    /\ features_df.row.total_risk_flags = 2
    /\ Increments(features_df.row) = <<0, 0, 0, 2500, 0>>
    /\ ml_result.ml_risk_score = 5500

\* C13: on both paths the bucket is LOW for a probability below 0.3, MEDIUM
\* from 0.3 up to but not including 0.6, HIGH from 0.6 on; the probability
\* is the one predict buckets, default_probability or risk_score.
C13_Buckets ==
    Scored =>
        /\ raw_score < 3000 => ml_result.ml_risk_level = "LOW"
        /\ (3000 <= raw_score /\ raw_score < 6000)
              => ml_result.ml_risk_level = "MEDIUM"
        /\ 6000 <= raw_score => ml_result.ml_risk_level = "HIGH"

\* C13 witness: a model probability of exactly 0.6 is HIGH.
C13_Witness ==
    /\ Scored /\ ml_result.model_used = "ML_MODEL"
    /\ raw_score = 6000 /\ ml_result.ml_risk_level = "HIGH"

\* C14: on the model path the decision is REJECT exactly when the
\* probability is above 0.5, on the heuristic path exactly when the score is
\* above 0.6; exactly 0.5 (model) and exactly 0.6 (heuristic) are accepted.
C14_Decisions ==
    Scored =>
        (ml_result.ml_prediction = "REJECT"
            <=> IF ml_result.model_used = "ML_MODEL"
                THEN raw_score > 5000 ELSE raw_score > 6000)

\* C14 witness: a heuristic score of exactly 0.6 is accepted.
C14_Witness ==
    /\ Scored /\ ml_result.model_used = "PLACEHOLDER_HEURISTIC"
    /\ raw_score = 6000 /\ ml_result.ml_prediction = "ACCEPT"

\* C15: every verdict predict returns, from predict_proba, from predict
\* alone and from the heuristic, has its probability in [0,1], its bucket in
\* {LOW, MEDIUM, HIGH}, its decision in {ACCEPT, REJECT} and its source in
\* {ML_MODEL, PLACEHOLDER_HEURISTIC}; with a model that has predict alone
\* the probability is 0.0 or 1.0 and is the label.
C15_VerdictRanges ==
    Scored =>
        /\ ml_result.ml_risk_score \in 0..One
        /\ ml_result.ml_risk_level \in {"LOW", "MEDIUM", "HIGH"}
        /\ ml_result.ml_prediction \in {"ACCEPT", "REJECT"}
        /\ ml_result.model_used \in {"ML_MODEL", "PLACEHOLDER_HEURISTIC"}
        /\ (model = "LABEL" /\ model_outcome = "returned") =>
              /\ ml_result.ml_risk_score \in {0, One}
              /\ ml_result.ml_risk_score = raw_score
              /\ ml_result.ml_risk_score = One
                    <=> ml_result.ml_prediction = "REJECT"

\* C15 witness: a model with predict alone returns label 1.
C15_Witness ==
    /\ Scored /\ model = "LABEL" /\ model_outcome = "returned"
    /\ ml_result.ml_risk_score = One /\ ml_result.ml_prediction = "REJECT"

-----------------------------------------------------------------------------
(* Properties of extract_features, checked under ExtractSpec. *)

\* extract_features has returned a feature vector.
Extracted == pc = "extracted" /\ DOMAIN features_df # {}

\* The elements of a sequence.
Range(seq) == {seq[i] : i \in 1..Len(seq)}

\* C16: the feature vectors of any two applications, whichever sections or
\* fields each has or lacks, have the same keys in the same order: every
\* vector has the keys and the order of the vector of the test application.
C16_SameKeysSameOrder ==
    Extracted =>
        LET reference == extract_features(FullApplication)
        IN  /\ features_df.columns = reference.columns
            /\ DOMAIN features_df.row = DOMAIN reference.features
            /\ DOMAIN features_df.row = Range(features_df.columns)
            /\ Cardinality(Range(features_df.columns)) = Len(features_df.columns)

\* C16 witness: the vector of the application without any section.
C16_Witness ==
    /\ Extracted /\ DOMAIN application = {}
    /\ Len(features_df.columns) = 44
    /\ features_df.columns[1] = "age"

\* The <<section, field>> each base feature is read from.
FedBy ==
    [age |-> <<"client_identity", "age">>,
     banking_seniority_years |-> <<"client_identity", "banking_seniority_years">>,
     client_status_is_new |-> <<"client_identity", "client_status">>,
     interaction_frequency_rare |-> <<"client_identity", "interaction_frequency">>,
     dependents_count |-> <<"personal_situation", "dependents_count">>,
     has_spouse |-> <<"personal_situation", "spouse_exists">>,
     spouse_income |-> <<"personal_situation", "spouse_info">>,
     is_married |-> <<"personal_situation", "marital_status">>,
     is_employed_cdi |-> <<"professional_situation", "professional_status">>,
     is_unemployed |-> <<"professional_situation", "professional_status">>,
     job_seniority_years |-> <<"professional_situation", "seniority_years">>,
     job_stability_high |-> <<"professional_situation", "stability">>,
     job_stability_low |-> <<"professional_situation", "stability">>,
     monthly_income |-> <<"financial_situation", "monthly_income_net">>,
     monthly_expenses |-> <<"financial_situation", "monthly_fixed_expenses">>,
     existing_debt |-> <<"financial_situation", "existing_credits_total">>,
     debt_monthly_payment |->
         <<"financial_situation", "existing_credits_monthly_payment">>,
     debt_ratio |-> <<"financial_situation", "debt_ratio">>,
     available_savings |-> <<"financial_situation", "available_savings">>,
     has_banking_incidents |-> <<"financial_situation", "banking_history">>,
     major_banking_incidents |-> <<"financial_situation", "banking_history">>,
     amount_requested |-> <<"credit_request", "amount_requested">>,
     duration_months |-> <<"credit_request", "duration_months">>,
     is_real_estate |-> <<"credit_request", "credit_type">>,
     is_investment |-> <<"credit_request", "purpose">>,
     is_comfort_expense |-> <<"credit_request", "purpose">>,
     stress_level |-> <<"behavioral_indicators", "stress_level">>,
     urgency_level |-> <<"behavioral_indicators", "urgency_level">>,
     project_clarity |-> <<"behavioral_indicators", "project_clarity">>,
     engagement_level |-> <<"behavioral_indicators", "engagement_level">>,
     low_coherence |-> <<"behavioral_indicators", "discourse_coherence">>,
     external_pressure |-> <<"real_intention", "main_motivation">>,
     short_term_only |-> <<"real_intention", "projection_capacity">>,
     risk_professional_instability |->
         <<"risk_checklist", "professional_instability">>,
     risk_high_debt |-> <<"risk_checklist", "high_debt">>,
     risk_spouse_dependency |-> <<"risk_checklist", "spouse_income_dependency">>,
     risk_non_priority |-> <<"risk_checklist", "non_priority_project">>,
     risk_excessive_urgency |-> <<"risk_checklist", "excessive_urgency">>,
     risk_incoherent |-> <<"risk_checklist", "incoherent_discourse">>,
     global_risk_high |-> <<"synthesis", "global_risk_profile">>,
     repayment_capacity_insufficient |->
         <<"synthesis", "theoretical_repayment_capacity">>]

\* The field at path is absent from app: its section is, or the field in it.
Absent(app, path) ==
    path[1] \notin DOMAIN app \/ path[2] \notin DOMAIN app[path[1]]

\* No field of app holds None where extract_features looks into it.
NoNullSpouse(app) ==
    Get(Get(app, "personal_situation", <<>>), "spouse_info", <<>>) # NoneDict

\* extract_features returns for every application without such a None.
ReturnsWithoutError ==
    (pc # "extract" /\ NoNullSpouse(application)) => Extracted

\* C17, as stated: with any subset of the sections or of their fields absent,
\* extract_features returns without error and every base feature read from
\* an absent field is 0.
C17_AbsentIsZero ==
    /\ ReturnsWithoutError
    /\ Extracted =>
          \A c \in Range(BaseColumns) :
              Absent(application, FedBy[c]) => features_df.row[c] = 0

\* What a base feature is when the field it reads is absent.
AbsentDefault(c) ==
    IF c \in {"stress_level", "urgency_level", "project_clarity",
              "engagement_level"} THEN 3
    ELSE IF c = "has_banking_incidents" THEN 1
    ELSE 0

\* C17, amended: with any subset of the sections or of their fields absent,
\* extract_features returns without error and every base feature read from
\* an absent field is 0, except the four behavioural levels (stress_level,
\* urgency_level, project_clarity, engagement_level), which are 3, and
\* has_banking_incidents, which is 1.
C17_AbsentIsDefault ==
    /\ ReturnsWithoutError
    /\ Extracted =>
          \A c \in Range(BaseColumns) :
              Absent(application, FedBy[c])
                  => features_df.row[c] = AbsentDefault(c)

\* C17 witness: the vector of an application without its client, financial
\* and behavioural sections.
C17_Witness ==
    /\ Extracted
    /\ DOMAIN application \cap {"client_identity", "financial_situation",
                                "behavioral_indicators"} = {}
    /\ "credit_request" \in DOMAIN application
    /\ features_df.row.age = 0
    /\ features_df.row.client_status_is_new = 0
    /\ features_df.row.stress_level = 3
    /\ features_df.row.has_banking_incidents = 1

\* C18: the columns of the feature vector are, position by position, the
\* feature columns the model is fitted on: the columns of the generated
\* dataset without the target.
C18_TrainingOrder ==
    Extracted => features_df.columns = prepare_features(DatasetColumns)

\* a/b = c/d, for b and d not 0
SameRatio(a, b, c, d) == b # 0 /\ d # 0 /\ a * d = c * b

\* C19: when the extracted monthly_income is 0, negative or absent (then
\* extracted as 0), expense_ratio is exactly 1.0 and credit_to_income_ratio
\* exactly 10.0 whatever the other fields; otherwise they are
\* monthly_expenses / monthly_income and
\* amount_requested / (monthly_income * 12) of the extracted base features.
C19_DerivedRatios ==
    Extracted =>
        LET row == features_df.row
            er  == row.expense_ratio
            ci  == row.credit_to_income_ratio
        IN  /\ Absent(application, FedBy.monthly_income) => row.monthly_income = 0
            /\ IF row.monthly_income <= 0
               THEN /\ SameRatio(er.num, er.den, 1, 1)
                    /\ SameRatio(ci.num, ci.den, 10, 1)
               ELSE /\ SameRatio(er.num, er.den,
                                 row.monthly_expenses, row.monthly_income)
                    /\ SameRatio(ci.num, ci.den,
                                 row.amount_requested, row.monthly_income * 12)

\* C19 witness: a negative income with expenses and an amount takes the
\* sentinels.
C19_Witness ==
    /\ Extracted
    /\ features_df.row.monthly_income < 0
    /\ features_df.row.monthly_expenses = 1800
    /\ features_df.row.amount_requested = 20000
    /\ features_df.row.expense_ratio = [num |-> 1, den |-> 1]
    /\ features_df.row.credit_to_income_ratio = [num |-> 10, den |-> 1]

\* C20: spouse_income is 0 whenever spouse_exists is false or absent, also
\* when spouse_info carries an income; when spouse_exists is true it is the
\* monthly_income of spouse_info.
C20_SpouseIncomeGated ==
    Extracted =>
        LET personal == Get(application, "personal_situation", <<>>)
            flag     == Has(personal, "spouse_exists") /\ personal.spouse_exists
        IN  /\ ~flag => features_df.row.spouse_income = 0
            /\ (flag /\ Has(personal, "spouse_info")
                     /\ Has(personal.spouse_info, "monthly_income"))
                  => features_df.row.spouse_income
                       = personal.spouse_info.monthly_income
            /\ features_df.row.has_spouse = (IF flag THEN 1 ELSE 0)

\* C20 witness: spouse_exists is False and spouse_info still carries an
\* income of 2500.
C20_Witness ==
    /\ Extracted
    /\ Has(application, "personal_situation")
    /\ Has(application.personal_situation, "spouse_exists")
    /\ ~application.personal_situation.spouse_exists
    /\ Has(application.personal_situation, "spouse_info")
    /\ application.personal_situation.spouse_info = SpouseRecord
    /\ features_df.row.spouse_income = 0

\* C21: total_risk_flags is the number of the six checklist indicators that
\* are true in the record, an integer from 0 to 6, and the sum of the six
\* extracted 0/1 features.
C21_RiskCount ==
    Extracted =>
        LET row    == features_df.row
            risks  == Get(application, "risk_checklist", <<>>)
            raised == {k \in Range(RiskKeys) : Get(risks, k, FALSE)}
            flags  == {"risk_professional_instability", "risk_high_debt",
                       "risk_spouse_dependency", "risk_non_priority",
                       "risk_excessive_urgency", "risk_incoherent"}
        IN  /\ row.total_risk_flags = Cardinality(raised)
            /\ row.total_risk_flags \in 0..6
            /\ \A c \in flags : row[c] \in {0, 1}
            /\ row.total_risk_flags = Cardinality({c \in flags : row[c] = 1})

\* C21 witness: four indicators true, one false and one absent count 4.
C21_Witness ==
    /\ Extracted
    /\ Has(application, "risk_checklist")
    /\ ~Has(application.risk_checklist, "high_debt")
    /\ Has(application.risk_checklist, "excessive_urgency")
    /\ ~application.risk_checklist.excessive_urgency
    /\ features_df.row.risk_spouse_dependency = 1
    /\ features_df.row.total_risk_flags = 4

-----------------------------------------------------------------------------
(* Further properties of predict, checked under ScoreSpec. *)

\* The feature row with n raised flags, every other feature kept.
WithFlags(row, n) == [row EXCEPT !.total_risk_flags = n]

\* C22: with debt_ratio, unemployed, major banking incident and low job
\* stability fixed, the heuristic score with 3 or more raised flags is never
\* below the score with none; every heuristic score is in [0,1].
C22_FlagsNeverLower ==
    (Scored /\ ml_result.model_used = "PLACEHOLDER_HEURISTIC") =>
        /\ raw_score \in 0..One
        /\ features_df.row.total_risk_flags = 0 =>
              \A n \in 3..6 :
                  HeuristicScore(WithFlags(features_df.row, n)) >= raw_score
        /\ features_df.row.total_risk_flags >= 3 =>
              raw_score >= HeuristicScore(WithFlags(features_df.row, 0))

\* C22 witness: three raised flags lift an unemployed applicant with major
\* incidents from 0.85 to the clamp.
C22_Witness ==
    /\ Scored /\ ml_result.model_used = "PLACEHOLDER_HEURISTIC"
    /\ features_df.row.total_risk_flags = 3
    /\ raw_score = One
    /\ HeuristicScore(WithFlags(features_df.row, 0)) = 8500

\* C27: no verdict of predict is LOW with REJECT; a heuristic score is never
\* below 0.3, so a heuristic verdict is never LOW and a heuristic REJECT is
\* HIGH; a model ACCEPT is LOW or MEDIUM.
C27_BucketAgainstDecision ==
    Scored =>
        LET heuristic == ml_result.model_used = "PLACEHOLDER_HEURISTIC"
            level     == ml_result.ml_risk_level
            decision  == ml_result.ml_prediction
        IN  /\ ~(level = "LOW" /\ decision = "REJECT")
            /\ heuristic => raw_score >= 3000 /\ level # "LOW"
            /\ (heuristic /\ decision = "REJECT") => level = "HIGH"
            /\ (~heuristic /\ decision = "ACCEPT") => level \in {"LOW", "MEDIUM"}

\* C27 witness: the lowest heuristic score, 0.3, is MEDIUM and accepted.
C27_Witness ==
    /\ Scored /\ ml_result.model_used = "PLACEHOLDER_HEURISTIC"
    /\ raw_score = 3000
    /\ ml_result.ml_risk_level = "MEDIUM" /\ ml_result.ml_prediction = "ACCEPT"

-----------------------------------------------------------------------------
(* A further property of _combine_decisions, checked under FuseSpec. *)

\* C26: unless the qualitative verdict's mode is FRAUD_STOP, the fused
\* final_decision is the ML verdict's decision whatever the qualitative
\* verdict decides; fuse returns ACCEPT only for an ML ACCEPT.
C26_MlDecides ==
    Fused =>
        /\ QMode # "FRAUD_STOP"
              => final_result.final_decision = ml_result.ml_prediction
        /\ final_result.final_decision = "ACCEPT"
              => ml_result.ml_prediction = "ACCEPT"

\* C26 witness: in NORMAL mode the qualitative verdict accepts, the ML
\* verdict rejects and the fused decision is REJECT.
C26_Witness ==
    /\ Fused /\ QMode = "NORMAL" /\ Decisions("REJECT", "ACCEPT")
    /\ final_result.final_decision = "REJECT"

-----------------------------------------------------------------------------
(* Properties of repeated calls, checked under ReplaySpec. *)

-----------------------------------------------------------------------------
(* Properties of concurrent predict calls, checked under ConcurrentSpec. *)

\* C24: in every interleaving of predict calls on one agent the model is
\* the one _load_model left (loaded or None), and the verdict of each call
\* is the verdict predict returns for its application, and for what the
\* model did in that call, when it runs alone.
C24_RequestsIndependent ==
    /\ model = load_model(model_file)
    /\ \A r \in DOMAIN requests :
          requests[r].pc = "done" =>
              requests[r].result =
                  predict(model, requests[r].application,
                          requests[r].outcome).result

\* C24 witness: one call has returned a model verdict while the other has
\* extracted its features and not yet invoked the model.
C24_Witness ==
    /\ DOMAIN requests = 1..MaxRequests
    /\ requests[1].pc = "extracted"
    /\ requests[2].pc = "done"
    /\ requests[2].result.model_used = "ML_MODEL"
    /\ requests[1].application # requests[2].application

\* C25: a predict call invokes the loaded model at most once; when the
\* invocation raises, the heuristic is evaluated exactly once and the model
\* is not invoked again in that call; the model stays loaded, and a call
\* that starts after a fault invokes it.
C25_DegradesOnce ==
    \A r \in DOMAIN requests :
        LET q == requests[r]
        IN  /\ q.invocations <= 1
            /\ q.heuristics <= 1
            /\ (q.pc = "done" /\ q.outcome.kind = "fault")
                  => q.invocations = 1 /\ q.heuristics = 1
            /\ (q.pc = "done" /\ q.outcome.kind \notin {"fault", "unused"})
                  => q.invocations = 1 /\ q.heuristics = 0
            /\ q.after_fault => model # "NONE"
            /\ (q.after_fault /\ q.pc = "done") => q.invocations = 1

\* C25 witness: a call that started after the model had raised in another
\* call has invoked the model and returned its verdict.
C25_Witness ==
    \E r, f \in DOMAIN requests :
        /\ requests[f].pc = "done" /\ requests[f].outcome.kind = "fault"
        /\ requests[f].result.model_used = "PLACEHOLDER_HEURISTIC"
        /\ requests[r].after_fault /\ requests[r].pc = "done"
        /\ requests[r].invocations = 1
        /\ requests[r].result.model_used = "ML_MODEL"

=============================================================================
